---------------------------- MODULE Spec2Model ----------------------------
(***************************************************************************)
(* Model of src-tauri/src/embeddings.rs: the EmbeddingManager (an HNSW     *)
(* index plus the note_to_id / id_to_note mappings and the next_id         *)
(* counter) and its operations add_note, update_note, remove_note, search  *)
(* and rebuild_index.  Spec runs the operations one after the other,      *)
(* SpecGen runs generate_simple_embedding on its own, SpecLocked runs the  *)
(* operations from two threads through the Mutex of EMBEDDING_MANAGER.     *)
(*                                                                         *)
(* Strings are sequences of code points.  f32 values are fixed-point       *)
(* integers in units of 1/One.                                             *)
(***************************************************************************)
EXTENDS Integers, Sequences, FiniteSets, TLC

(***************************************************************************)
(* Bounds of the model.                                                    *)
(***************************************************************************)
MaxNext == 3        \* no insertion once next_id has reached this value
MaxNotes == 2       \* rebuild_index is called with at most this many notes
MaxTextLen == 3     \* generate_simple_embedding is called on texts of at most this many chars
Headroom == 2       \* the nearly full index starts at most this many vectors below max_elements

(***************************************************************************)
(* Program constants.                                                      *)
(***************************************************************************)
D == 128            \* vec![0.0; 128] and % 128
One == 1000         \* the f32 value 1.0 in fixed point
max_elements == 10000   \* let max_elements = 10000, given to Hnsw::new

(***************************************************************************)
(* Inputs.                                                                 *)
(***************************************************************************)
Space == 32
\* Note {id, title, content}: "a" is titled "a", "b" is titled "b", both with content "a"
Note == {[id |-> "a", title |-> <<97>>, content |-> <<97>>],
         [id |-> "b", title |-> <<98>>, content |-> <<97>>]}
NoteIds == {note.id : note \in Note}
Queries == {<<98, 32, 97>>}                   \* "b a"
Ks == {0, 1, 2}                               \* k of a search
EmptyQuery == << >>                           \* "", a query no state of Spec has searched
NoCutoff == -1                                \* distance_cutoff = None
\* chars of the texts given to generate_simple_embedding: ' ', 'a', U+00E1
\* (225 % 128 = 97, the bucket of 'a') and U+1F600 (128512 % 128 = 0)
Chars == {32, 97, 225, 128512}
Texts == UNION {[1..n -> Chars] : n \in 0..MaxTextLen}

(***************************************************************************)
(* Finite maps (HashMap).                                                  *)
(***************************************************************************)
EmptyMap == [x \in {} |-> 0]
MapInsert(m, key, val) == [x \in (DOMAIN m) \cup {key} |-> IF x = key THEN val ELSE m[x]]
MapRemove(m, key) == [x \in (DOMAIN m) \ {key} |-> m[x]]

(***************************************************************************)
(* Fixed-point arithmetic.                                                 *)
(***************************************************************************)
RECURSIVE ISqrtIter(_, _, _)
ISqrtIter(n, lo, hi) ==
    IF lo >= hi THEN lo
    ELSE LET mid == (lo + hi + 1) \div 2
         IN  IF mid * mid <= n THEN ISqrtIter(n, mid, hi) ELSE ISqrtIter(n, lo, mid - 1)
ISqrt(n) == ISqrtIter(n, 0, IF n < 46340 THEN n ELSE 46340)

(***************************************************************************)
(* generate_simple_embedding: a vector is a tuple of D components,         *)
(* component j of the code at index j + 1.                                 *)
(***************************************************************************)
ZeroVec == [j \in 1..D |-> 0]

\* the loop adding 1.0 for every char, whatever its position
RECURSIVE Accumulate_unweighted(_, _, _)
Accumulate_unweighted(text, i, embedding) ==
    IF i >= Len(text) THEN embedding
    ELSE LET idx == text[i + 1] % D
         IN  Accumulate_unweighted(text, i + 1, [embedding EXCEPT ![idx + 1] = @ + One])

RECURSIVE Accumulate(_, _, _)
Accumulate(text, i, embedding) ==
    IF i >= Len(text) THEN embedding
    ELSE LET idx == text[i + 1] % D
         IN  Accumulate(text, i + 1,
                 [embedding EXCEPT ![idx + 1] = @ + (One \div (i + 1))])

NonZero(v) == {j \in 1..D : v[j] # 0}

RECURSIVE SumOver(_, _)
SumOver(S, f) ==
    IF S = {} THEN 0
    ELSE LET j == CHOOSE x \in S : TRUE IN f[j] + SumOver(S \ {j}, f)

SumSquares(v) == SumOver(NonZero(v), [j \in 1..D |-> v[j] * v[j]])
Magnitude(v) == ISqrt(SumSquares(v))

\* generate_simple_embedding without the division by the magnitude
generate_simple_embedding_unnormalized(text) ==
    Accumulate(text, 0, ZeroVec)

\* generate_simple_embedding answering a unit vector when the magnitude is 0
generate_simple_embedding_unit_default(text) ==
    LET embedding == Accumulate(text, 0, ZeroVec)
        magnitude == Magnitude(embedding)
    IN  IF magnitude > 0
        THEN [j \in 1..D |-> (embedding[j] * One) \div magnitude]
        ELSE [embedding EXCEPT ![1] = One]

generate_simple_embedding(text) ==
    LET embedding == Accumulate(text, 0, ZeroVec)
        magnitude == Magnitude(embedding)
    IN  IF magnitude > 0
        THEN [j \in 1..D |-> (embedding[j] * One) \div magnitude]
        ELSE embedding

(***************************************************************************)
(* The HNSW index with DistCosine: an insert-only collection of points     *)
(* (d_id, v), and its k-nearest-neighbour search.                          *)
(***************************************************************************)
\* DistCosine of the hnsw_rs crate: 1 - <va, vb> / (|va| |vb|), never below 0,
\* and 0 when one of the norms is 0.
Dot(va, vb) == SumOver(NonZero(va) \cap NonZero(vb), [j \in 1..D |-> va[j] * vb[j]])

CosineDistance(va, vb) ==
    LET na == SumSquares(va)
        nb == SumSquares(vb)
    IN  IF na > 0 /\ nb > 0
        THEN LET dist_unchecked == One - ((Dot(va, vb) * One) \div (ISqrt(na) * ISqrt(nb)))
             IN  IF dist_unchecked > 0 THEN dist_unchecked ELSE 0
        ELSE 0

\* generate_simple_embedding and the distance, tabulated over the texts and
\* vectors of the model.
NoteText(note) == note.title \o <<Space>> \o note.content
NoteTexts == {NoteText(note) : note \in Note}
RECURSIVE EmbeddingsOf(_)
EmbeddingsOf(texts) ==
    IF texts = {} THEN EmptyMap
    ELSE LET text == CHOOSE t \in texts : TRUE
         IN  (text :> generate_simple_embedding(text)) @@ EmbeddingsOf(texts \ {text})
EmbeddingTable == EmbeddingsOf(NoteTexts \cup Queries \cup {EmptyQuery})
Embedding(text) == EmbeddingTable[text]

\* A point as the index holds it: the nonzero components of the vector by
\* position, the other components of the D being 0.
Stored(v) == [j \in NonZero(v) |-> v[j]]
Unpack(p) == [j \in 1..D |-> IF j \in DOMAIN p THEN p[j] ELSE 0]

RECURSIVE StoredOfAll(_)
StoredOfAll(vs) ==
    IF vs = {} THEN EmptyMap
    ELSE LET v == CHOOSE x \in vs : TRUE
         IN  (v :> Stored(v)) @@ StoredOfAll(vs \ {v})
StoredTable == StoredOfAll({Embedding(t) : t \in NoteTexts \cup Queries \cup {EmptyQuery}})
StoredPoint(v) == StoredTable[v]

RECURSIVE DistancesOf(_)
DistancesOf(pairs) ==
    IF pairs = {} THEN EmptyMap
    ELSE LET pair == CHOOSE x \in pairs : TRUE
         IN  (pair :> CosineDistance(Unpack(pair[1]), Unpack(pair[2]))) @@ DistancesOf(pairs \ {pair})
DistanceTable ==
    DistancesOf({StoredPoint(Embedding(q)) : q \in Queries \cup {EmptyQuery}} \X
                {StoredPoint(Embedding(t)) : t \in NoteTexts})
Distance(q, p) == DistanceTable[<<q, p>>]

\* distance_cutoff: None, 0.0, and the distance between "b a" and "a a"
Cutoffs == {NoCutoff, 0,
            CosineDistance(Embedding(<<98, 32, 97>>), Embedding(<<97, 32, 97>>))}

NoIndex == [alloc |-> FALSE, points |-> << >>]       \* index: None
NewIndex == [alloc |-> TRUE, points |-> << >>]       \* Some(Hnsw::new(..))

HnswInsert(idx, embedding, id) ==
    [idx EXCEPT !.points = Append(@, [d_id |-> id, v |-> StoredPoint(embedding)])]

Min(x, y) == IF x <= y THEN x ELSE y

\* The answers the index can give when dist[i] is the distance of point i
\* to the query: the min(k, size) nearest points in ascending distance
\* order, points at equal distance in any order.  (With ef_search = 50 the
\* search is exhaustive on an index of the sizes of this model.)
HnswAnswers(p, dist, k) ==
    LET n == Len(p)
        kk == Min(k, n)
        picks == {s \in [1..kk -> 1..n] :
                    /\ \A i, j \in 1..kk : i < j => s[i] # s[j] /\ dist[s[i]] <= dist[s[j]]
                    /\ \A x \in 1..n :
                          (\A i \in 1..kk : s[i] # x) =>
                              \A i \in 1..kk : dist[s[i]] <= dist[x]}
    IN  {[i \in 1..kk |-> [d_id |-> p[s[i]].d_id, distance |-> dist[s[i]]]] : s \in picks}

HnswSearch(idx, embedding, k) ==
    UNION {HnswAnswers(idx.points, [i \in 1..Len(idx.points) |-> Distance(q, idx.points[i].v)], k) :
             q \in {StoredPoint(embedding)}}

(***************************************************************************)
(* EmbeddingManager: the operations as functions of the manager value m.   *)
(* Each returns the manager afterwards and the Result.                     *)
(***************************************************************************)
new == [index |-> NoIndex, note_to_id |-> EmptyMap, id_to_note |-> EmptyMap, next_id |-> 0]

initialize(m) == [m EXCEPT !.index = NewIndex]

\* add_note without id_to_note.insert
add_note_no_reverse(m, note) ==
    LET m1 == IF ~m.index.alloc THEN initialize(m) ELSE m
        embedding == Embedding(NoteText(note))
        id == m1.next_id
    IN  [m |-> [m1 EXCEPT !.index = HnswInsert(@, embedding, id),
                          !.note_to_id = MapInsert(@, note.id, id),
                          !.next_id = @ + 1],
         res |-> "Ok"]

\* add_note without next_id += 1
add_note_no_increment(m, note) ==
    LET m1 == IF ~m.index.alloc THEN initialize(m) ELSE m
        embedding == Embedding(NoteText(note))
        id == m1.next_id
    IN  [m |-> [m1 EXCEPT !.index = HnswInsert(@, embedding, id),
                          !.note_to_id = MapInsert(@, note.id, id),
                          !.id_to_note = MapInsert(@, id, note.id)],
         res |-> "Ok"]

\* add_note recording id_to_note under the counter after the increment
add_note_wrong_reverse(m, note) ==
    LET m1 == IF ~m.index.alloc THEN initialize(m) ELSE m
        embedding == Embedding(NoteText(note))
        id == m1.next_id
    IN  [m |-> [m1 EXCEPT !.index = HnswInsert(@, embedding, id),
                          !.note_to_id = MapInsert(@, note.id, id),
                          !.id_to_note = MapInsert(@, id + 1, note.id),
                          !.next_id = @ + 1],
         res |-> "Ok"]

\* add_note dropping the id_to_note entry of the id that note_to_id held for
\* the note
add_note_replaces(m, note) ==
    LET m1 == IF ~m.index.alloc THEN initialize(m) ELSE m
        embedding == Embedding(NoteText(note))
        id == m1.next_id
        rev == IF note.id \in DOMAIN m1.note_to_id
               THEN MapRemove(m1.id_to_note, m1.note_to_id[note.id])
               ELSE m1.id_to_note
    IN  [m |-> [m1 EXCEPT !.index = HnswInsert(@, embedding, id),
                          !.note_to_id = MapInsert(@, note.id, id),
                          !.id_to_note = MapInsert(rev, id, note.id),
                          !.next_id = @ + 1],
         res |-> "Ok"]

\* add_note taking the number of note_to_id entries as the id
add_note_len_id(m, note) ==
    LET m1 == IF ~m.index.alloc THEN initialize(m) ELSE m
        embedding == Embedding(NoteText(note))
        id == Cardinality(DOMAIN m1.note_to_id)
    IN  [m |-> [m1 EXCEPT !.index = HnswInsert(@, embedding, id),
                          !.note_to_id = MapInsert(@, note.id, id),
                          !.id_to_note = MapInsert(@, id, note.id),
                          !.next_id = @ + 1],
         res |-> "Ok"]

\* add_note without the is_none check and its call of initialize
add_note_no_init(m, note) ==
    LET embedding == Embedding(NoteText(note))
        id == m.next_id
    IN  IF ~m.index.alloc THEN [m |-> m, res |-> "Panic"]
        ELSE [m |-> [m EXCEPT !.index = HnswInsert(@, embedding, id),
                              !.note_to_id = MapInsert(@, note.id, id),
                              !.id_to_note = MapInsert(@, id, note.id),
                              !.next_id = @ + 1],
              res |-> "Ok"]

\* res is "Panic" where self.index.as_mut().unwrap() finds None
add_note(m, note) ==
    LET m1 == IF ~m.index.alloc THEN initialize(m) ELSE m
        embedding == Embedding(NoteText(note))
        id == m1.next_id
    IN  IF ~m1.index.alloc THEN [m |-> m1, res |-> "Panic"]
        ELSE [m |-> [m1 EXCEPT !.index = HnswInsert(@, embedding, id),
                               !.note_to_id = MapInsert(@, note.id, id),
                               !.id_to_note = MapInsert(@, id, note.id),
                               !.next_id = @ + 1],
              res |-> "Ok"]

\* remove_note forgetting to delete the note_to_id entry
remove_note_keeps_forward(m, note) ==
    IF note.id \in DOMAIN m.note_to_id
    THEN [m |-> [m EXCEPT !.id_to_note = MapRemove(@, m.note_to_id[note.id])], res |-> "Ok"]
    ELSE [m |-> m, res |-> "NotFound"]

\* remove_note answering Ok for an id that has no note_to_id entry
remove_note_absent_ok(m, note) ==
    IF note.id \in DOMAIN m.note_to_id
    THEN [m |-> [m EXCEPT !.note_to_id = MapRemove(@, note.id),
                         !.id_to_note = MapRemove(@, m.note_to_id[note.id])],
          res |-> "Ok"]
    ELSE [m |-> m, res |-> "Ok"]

\* remove_note deleting every id_to_note entry of the note
remove_note_purges(m, note) ==
    IF note.id \in DOMAIN m.note_to_id
    THEN [m |-> [m EXCEPT !.note_to_id = MapRemove(@, note.id),
                         !.id_to_note = [i \in {x \in DOMAIN @ : @[x] # note.id} |-> @[i]]],
          res |-> "Ok"]
    ELSE [m |-> m, res |-> "NotFound"]

remove_note(m, note) ==
    IF note.id \in DOMAIN m.note_to_id
    THEN LET id == m.note_to_id[note.id]
         IN  [m |-> [m EXCEPT !.note_to_id = MapRemove(@, note.id),
                              !.id_to_note = MapRemove(@, id)],
              res |-> "Ok"]
    ELSE [m |-> m, res |-> "NotFound"]

\* update_note without the remove_note of the entry it finds
update_note_no_remove(m, note) ==
    add_note(m, note)

update_note(m, note) ==
    IF note.id \in DOMAIN m.note_to_id
    THEN LET r == remove_note(m, note)
         IN  IF r.res # "Ok" THEN r ELSE add_note(r.m, note)
    ELSE add_note(m, note)

\* the loop skipping a neighbour whose distance equals the cutoff
RECURSIVE Kept_exclusive(_, _, _)
Kept_exclusive(m, neighbors, distance_cutoff) ==
    IF neighbors = << >> THEN << >>
    ELSE LET neighbor == Head(neighbors)
             rest == Kept_exclusive(m, Tail(neighbors), distance_cutoff)
         IN  IF distance_cutoff # NoCutoff /\ neighbor.distance >= distance_cutoff
             THEN rest
             ELSE IF neighbor.d_id \in DOMAIN m.id_to_note
                  THEN <<neighbor>> \o rest
                  ELSE rest

\* the loop inserting at the front of the result instead of pushing
RECURSIVE Kept_reversed(_, _, _)
Kept_reversed(m, neighbors, distance_cutoff) ==
    IF neighbors = << >> THEN << >>
    ELSE LET neighbor == Head(neighbors)
             rest == Kept_reversed(m, Tail(neighbors), distance_cutoff)
         IN  IF distance_cutoff # NoCutoff /\ neighbor.distance > distance_cutoff
             THEN rest
             ELSE IF neighbor.d_id \in DOMAIN m.id_to_note
                  THEN rest \o <<neighbor>>
                  ELSE rest

\* The loop of search over the neighbours the index returned, in their
\* order: the neighbours whose note id is pushed onto the result.
RECURSIVE Kept(_, _, _)
Kept(m, neighbors, distance_cutoff) ==
    IF neighbors = << >> THEN << >>
    ELSE LET neighbor == Head(neighbors)
             rest == Kept(m, Tail(neighbors), distance_cutoff)
         IN  IF distance_cutoff # NoCutoff /\ neighbor.distance > distance_cutoff
             THEN rest
             ELSE IF neighbor.d_id \in DOMAIN m.id_to_note
                  THEN <<neighbor>> \o rest
                  ELSE rest

\* search failing on a manager whose index is None
search_uninit_err(m, query, k, distance_cutoff, neighbors) ==
    IF ~m.index.alloc
    THEN [m |-> m, res |-> "NotFound", result |-> << >>, neighbors |-> << >>, kept |-> << >>]
    ELSE LET kept == Kept(m, neighbors, distance_cutoff)
         IN  [m |-> m, res |-> "Ok",
              result |-> [i \in 1..Len(kept) |-> m.id_to_note[kept[i].d_id]],
              neighbors |-> neighbors, kept |-> kept]

\* The answers index.search can give to search; no call when index is None.
IndexAnswers(m, query, k) ==
    IF ~m.index.alloc THEN {<< >>}
    ELSE HnswSearch(m.index, Embedding(query), k)

\* search creating the index when it is None, as add_note does
search_initializes(m, query, k, distance_cutoff, neighbors) ==
    IF ~m.index.alloc
    THEN [m |-> initialize(m), res |-> "Ok", result |-> << >>, neighbors |-> << >>, kept |-> << >>]
    ELSE LET kept == Kept(m, neighbors, distance_cutoff)
         IN  [m |-> m, res |-> "Ok",
              result |-> [i \in 1..Len(kept) |-> m.id_to_note[kept[i].d_id]],
              neighbors |-> neighbors, kept |-> kept]

\* search from self.index.as_ref().unwrap() on, neighbors being the answer
\* of index.search; res is "Panic" where the unwrap finds None
SearchIndex(m, query, k, distance_cutoff, neighbors) ==
    IF ~m.index.alloc
    THEN [m |-> m, res |-> "Panic", result |-> << >>, neighbors |-> << >>, kept |-> << >>]
    ELSE LET kept == Kept(m, neighbors, distance_cutoff)
         IN  [m |-> m, res |-> "Ok",
              result |-> [i \in 1..Len(kept) |-> m.id_to_note[kept[i].d_id]],
              neighbors |-> neighbors, kept |-> kept]

search(m, query, k, distance_cutoff, neighbors) ==
    IF ~m.index.alloc
    THEN [m |-> m, res |-> "Ok", result |-> << >>, neighbors |-> << >>, kept |-> << >>]
    ELSE SearchIndex(m, query, k, distance_cutoff, neighbors)

RECURSIVE AddAll(_, _)
AddAll(m, notes) ==
    IF notes = << >> THEN [m |-> m, res |-> "Ok"]
    ELSE LET r == add_note(m, Head(notes))
         IN  IF r.res # "Ok" THEN r ELSE AddAll(r.m, Tail(notes))

\* rebuild_index without next_id = 0
rebuild_index_keeps_counter(m, notes) ==
    LET cleared == [index |-> NoIndex, note_to_id |-> EmptyMap,
                    id_to_note |-> EmptyMap, next_id |-> m.next_id]
    IN  AddAll(initialize(cleared), notes)

\* rebuild_index without replacing the index
rebuild_index_keeps_index(m, notes) ==
    LET cleared == [index |-> m.index, note_to_id |-> EmptyMap,
                    id_to_note |-> EmptyMap, next_id |-> 0]
    IN  AddAll(IF cleared.index.alloc THEN cleared ELSE initialize(cleared), notes)

\* rebuild_index without its call of initialize, the index being created by
\* the first add_note
rebuild_index_lazy(m, notes) ==
    LET cleared == [index |-> NoIndex, note_to_id |-> EmptyMap,
                    id_to_note |-> EmptyMap, next_id |-> 0]
    IN  AddAll(cleared, notes)

rebuild_index(m, notes) ==
    LET cleared == [index |-> NoIndex, note_to_id |-> EmptyMap,
                    id_to_note |-> EmptyMap, next_id |-> 0]
    IN  AddAll(initialize(cleared), notes)

(***************************************************************************)
(* The state: the four fields of the EmbeddingManager behind               *)
(* EMBEDDING_MANAGER, the last call with its arguments and outcome, and    *)
(* two history variables; the text and the vector of a call of             *)
(* generate_simple_embedding; the Mutex around the manager and the threads *)
(* that call it.                                                           *)
(***************************************************************************)
VARIABLES
    index,          \* Option<Hnsw<f32, DistCosine>>
    note_to_id,     \* HashMap<String, usize>
    id_to_note,     \* HashMap<usize, String>
    next_id,        \* usize
    last,           \* the last call: operation, arguments, Result, neighbours seen
    status,         \* per external id: "absent", "live" or "removed"
    rebuilt,        \* the external ids of the last rebuild, while nothing was added or removed since
    gen_text,       \* the argument of generate_simple_embedding
    gen_embedding,  \* the vector it returned, << >> before the call
    lock,           \* Mutex<EmbeddingManager>: the thread holding the guard, or NoThread
    pc,             \* per thread: "idle", "waiting", "holding", "running" or "returned"
    call            \* per thread: the operation it runs under the guard

vars == <<index, note_to_id, id_to_note, next_id, last, status, rebuilt, gen_text, gen_embedding,
          lock, pc, call>>
genVars == <<gen_text, gen_embedding>>
lockVars == <<lock, pc, call>>

Threads == {"t1", "t2"}
NoThread == "none"
\* op and notes: the call; todo: the notes rebuild_index has still to add, or
\* the note update_note has still to add; at: the manager when the call began
NoCall == [op |-> "none", notes |-> << >>, todo |-> << >>, res |-> "Ok", at |-> new]
Unlocked ==
    /\ lock = NoThread
    /\ pc = [t \in Threads |-> "idle"]
    /\ call = [t \in Threads |-> NoCall]

Self == [index |-> index, note_to_id |-> note_to_id, id_to_note |-> id_to_note, next_id |-> next_id]

SetSelf(m) ==
    /\ index' = m.index
    /\ note_to_id' = m.note_to_id
    /\ id_to_note' = m.id_to_note
    /\ next_id' = m.next_id

Call(op, notes, res) ==
    [op |-> op, notes |-> notes, query |-> << >>, k |-> 0, cutoff |-> NoCutoff,
     res |-> res, result |-> << >>, neighbors |-> << >>, kept |-> << >>]

NoRebuild == [valid |-> FALSE, ids |-> {}]
NoteSeqs == UNION {[1..n -> Note] : n \in 0..MaxNotes}
IdsOf(notes) == {notes[i].id : i \in DOMAIN notes}

Init ==
    /\ index = new.index
    /\ note_to_id = new.note_to_id
    /\ id_to_note = new.id_to_note
    /\ next_id = new.next_id
    /\ last = Call("new", << >>, "Ok")
    /\ status = [e \in NoteIds |-> "absent"]
    /\ rebuilt = NoRebuild
    /\ gen_text = << >>
    /\ gen_embedding = << >>
    /\ Unlocked

AddNote(note) ==
    /\ next_id < MaxNext
    /\ LET r == add_note(Self, note)
       IN  /\ SetSelf(r.m)
           /\ last' = Call("add", <<note>>, r.res)
           /\ status' = IF r.res = "Ok" THEN [status EXCEPT ![note.id] = "live"] ELSE status
    /\ rebuilt' = NoRebuild
    /\ UNCHANGED <<genVars, lockVars>>

UpdateNote(note) ==
    /\ next_id < MaxNext
    /\ LET r == update_note(Self, note)
       IN  /\ SetSelf(r.m)
           /\ last' = Call("update", <<note>>, r.res)
           /\ status' = IF r.res = "Ok" THEN [status EXCEPT ![note.id] = "live"] ELSE status
    /\ rebuilt' = NoRebuild
    /\ UNCHANGED <<genVars, lockVars>>

RemoveNote(note) ==
    LET r == remove_note(Self, note)
    IN  /\ SetSelf(r.m)
        /\ last' = Call("remove", <<note>>, r.res)
        /\ status' = IF r.res = "Ok" THEN [status EXCEPT ![note.id] = "removed"] ELSE status
        /\ rebuilt' = IF r.res = "Ok" THEN NoRebuild ELSE rebuilt
        /\ UNCHANGED <<genVars, lockVars>>

Search(query, k) ==
    /\ \E neighbors \in IndexAnswers(Self, query, k) :
          \E distance_cutoff \in Cutoffs :
             LET o == search(Self, query, k, distance_cutoff, neighbors)
             IN  /\ SetSelf(o.m)
                 /\ last' = [op |-> "search", notes |-> << >>, query |-> query, k |-> k,
                             cutoff |-> distance_cutoff, res |-> o.res, result |-> o.result,
                             neighbors |-> o.neighbors, kept |-> o.kept]
    /\ UNCHANGED <<status, rebuilt, genVars, lockVars>>

RebuildIndex(notes) ==
    LET r == rebuild_index(Self, notes)
    IN  /\ SetSelf(r.m)
        /\ last' = Call("rebuild", notes, r.res)
        /\ status' = [e \in NoteIds |->
                        IF e \in IdsOf(notes) THEN "live"
                        ELSE IF status[e] = "live" THEN "absent" ELSE status[e]]
        /\ rebuilt' = [valid |-> TRUE, ids |-> IdsOf(notes)]
        /\ UNCHANGED <<genVars, lockVars>>

Next ==
    \/ \E note \in Note : AddNote(note)
    \/ \E note \in Note : UpdateNote(note)
    \/ \E note \in Note : RemoveNote(note)
    \/ \E query \in Queries, k \in Ks : Search(query, k)
    \/ \E notes \in NoteSeqs : RebuildIndex(notes)

Spec == Init /\ [][Next]_vars

(***************************************************************************)
(* generate_simple_embedding on its own: a text of Texts is given and the  *)
(* function is called on it.  It has no self parameter: the manager stays  *)
(* as new left it.                                                         *)
(***************************************************************************)
InitGen ==
    /\ index = new.index
    /\ note_to_id = new.note_to_id
    /\ id_to_note = new.id_to_note
    /\ next_id = new.next_id
    /\ last = Call("new", << >>, "Ok")
    /\ status = [e \in NoteIds |-> "absent"]
    /\ rebuilt = NoRebuild
    /\ gen_text \in Texts
    /\ gen_embedding = << >>
    /\ Unlocked

Generate ==
    /\ gen_embedding = << >>
    /\ gen_embedding' = generate_simple_embedding(gen_text)
    /\ UNCHANGED <<index, note_to_id, id_to_note, next_id, last, status, rebuilt, gen_text, lockVars>>

NextGen == Generate

SpecGen == InitGen /\ [][NextGen]_vars

(***************************************************************************)
(* The manager behind EMBEDDING_MANAGER: Arc<Mutex<EmbeddingManager>>.     *)
(* The operations take &mut self, so a thread runs one only through a      *)
(* MutexGuard.  A thread asks for the lock, gets the guard when no thread  *)
(* has it, runs one operation and drops the guard.  update_note and        *)
(* rebuild_index are several steps, so that the manager between their      *)
(* steps is a state of its own.                                            *)
(***************************************************************************)
Holding == {"holding", "running", "returned"}

\* the note lists the threads call rebuild_index with: none, "b", and "a" then "b"
NoteOf(e) == CHOOSE note \in Note : note.id = e
LockedNoteSeqs == {<< >>, <<NoteOf("b")>>, <<NoteOf("a"), NoteOf("b")>>}

Returned(t, c) ==
    /\ pc' = [pc EXCEPT ![t] = "returned"]
    /\ call' = [call EXCEPT ![t] = c]

Running(t, c) ==
    /\ pc' = [pc EXCEPT ![t] = "running"]
    /\ call' = [call EXCEPT ![t] = c]

\* lock() is called
Request(t) ==
    /\ pc[t] = "idle"
    /\ pc' = [pc EXCEPT ![t] = "waiting"]
    /\ UNCHANGED <<index, note_to_id, id_to_note, next_id, last, status, rebuilt, genVars, lock, call>>

\* lock() granting the guard where no thread has it
Acquire_unguarded(t) ==
    /\ pc[t] = "waiting"
    /\ lock' = t
    /\ pc' = [pc EXCEPT ![t] = "holding"]
    /\ UNCHANGED <<index, note_to_id, id_to_note, next_id, last, status, rebuilt, genVars, call>>

\* lock() returns the guard
Acquire(t) ==
    /\ pc[t] = "waiting"
    /\ lock = NoThread
    /\ lock' = t
    /\ pc' = [pc EXCEPT ![t] = "holding"]
    /\ UNCHANGED <<index, note_to_id, id_to_note, next_id, last, status, rebuilt, genVars, call>>

LockedAdd(t, note) ==
    /\ pc[t] = "holding"
    /\ next_id < MaxNext
    /\ LET r == add_note(Self, note)
       IN  /\ SetSelf(r.m)
           /\ Returned(t, [op |-> "add", notes |-> <<note>>, todo |-> << >>, res |-> r.res, at |-> Self])
    /\ UNCHANGED <<last, status, rebuilt, genVars, lock>>

LockedRemove(t, note) ==
    /\ pc[t] = "holding"
    /\ LET r == remove_note(Self, note)
       IN  /\ SetSelf(r.m)
           /\ Returned(t, [op |-> "remove", notes |-> <<note>>, todo |-> << >>, res |-> r.res, at |-> Self])
    /\ UNCHANGED <<last, status, rebuilt, genVars, lock>>

LockedSearch(t, query, k) ==
    /\ pc[t] = "holding"
    /\ \E neighbors \in IndexAnswers(Self, query, k) :
          \E distance_cutoff \in Cutoffs :
             LET o == search(Self, query, k, distance_cutoff, neighbors)
             IN  /\ SetSelf(o.m)
                 /\ Returned(t, [op |-> "search", notes |-> << >>, todo |-> << >>, res |-> o.res, at |-> Self])
    /\ UNCHANGED <<last, status, rebuilt, genVars, lock>>

\* update_note up to its call of add_note
LockedUpdateRemove(t, note) ==
    /\ pc[t] = "holding"
    /\ next_id < MaxNext
    /\ LET c == [op |-> "update", notes |-> <<note>>, todo |-> <<note>>, res |-> "Ok", at |-> Self]
       IN  IF note.id \in DOMAIN note_to_id
           THEN LET r == remove_note(Self, note)
                IN  /\ SetSelf(r.m)
                    /\ IF r.res # "Ok"
                       THEN Returned(t, [c EXCEPT !.res = r.res, !.todo = << >>])
                       ELSE Running(t, c)
           ELSE /\ SetSelf(Self)
                /\ Running(t, c)
    /\ UNCHANGED <<last, status, rebuilt, genVars, lock>>

\* the add_note of update_note
LockedUpdateAdd(t) ==
    /\ pc[t] = "running" /\ call[t].op = "update"
    /\ LET r == add_note(Self, call[t].todo[1])
       IN  /\ SetSelf(r.m)
           /\ Returned(t, [call[t] EXCEPT !.res = r.res, !.todo = << >>])
    /\ UNCHANGED <<last, status, rebuilt, genVars, lock>>

\* rebuild_index up to its loop
LockedRebuildClear(t, notes) ==
    /\ pc[t] = "holding"
    /\ LET cleared == [index |-> NoIndex, note_to_id |-> EmptyMap,
                       id_to_note |-> EmptyMap, next_id |-> 0]
           c == [op |-> "rebuild", notes |-> notes, todo |-> notes, res |-> "Ok", at |-> Self]
       IN  /\ SetSelf(initialize(cleared))
           /\ IF notes = << >> THEN Returned(t, c) ELSE Running(t, c)
    /\ UNCHANGED <<last, status, rebuilt, genVars, lock>>

\* one round of the loop of rebuild_index
LockedRebuildAdd(t) ==
    /\ pc[t] = "running" /\ call[t].op = "rebuild"
    /\ LET r == add_note(Self, Head(call[t].todo))
           c == [call[t] EXCEPT !.res = r.res, !.todo = Tail(@)]
       IN  /\ SetSelf(r.m)
           /\ IF r.res # "Ok" \/ c.todo = << >> THEN Returned(t, c) ELSE Running(t, c)
    /\ UNCHANGED <<last, status, rebuilt, genVars, lock>>

\* the guard dropped only after a call that returned Ok
Release_ok_only(t) ==
    /\ pc[t] = "returned"
    /\ lock' = IF call[t].res = "Ok" THEN NoThread ELSE lock
    /\ pc' = [pc EXCEPT ![t] = "idle"]
    /\ call' = [call EXCEPT ![t] = NoCall]
    /\ UNCHANGED <<index, note_to_id, id_to_note, next_id, last, status, rebuilt, genVars>>

\* the guard is dropped when the call has returned, Ok or Err
Release(t) ==
    /\ pc[t] = "returned"
    /\ lock' = NoThread
    /\ pc' = [pc EXCEPT ![t] = "idle"]
    /\ call' = [call EXCEPT ![t] = NoCall]
    /\ UNCHANGED <<index, note_to_id, id_to_note, next_id, last, status, rebuilt, genVars>>

\* the steps of thread t while it has the guard
Operate(t) ==
    \/ \E note \in Note : LockedAdd(t, note)
    \/ \E note \in Note : LockedRemove(t, note)
    \/ \E query \in Queries, k \in Ks : LockedSearch(t, query, k)
    \/ \E note \in Note : LockedUpdateRemove(t, note)
    \/ LockedUpdateAdd(t)
    \/ \E notes \in LockedNoteSeqs : LockedRebuildClear(t, notes)
    \/ LockedRebuildAdd(t)

NextLocked ==
    \/ \E t \in Threads : Request(t)
    \/ \E t \in Threads : Acquire(t)
    \/ \E t \in Threads, note \in Note : LockedAdd(t, note)
    \/ \E t \in Threads, note \in Note : LockedRemove(t, note)
    \/ \E t \in Threads, query \in Queries, k \in Ks : LockedSearch(t, query, k)
    \/ \E t \in Threads, note \in Note : LockedUpdateRemove(t, note)
    \/ \E t \in Threads : LockedUpdateAdd(t)
    \/ \E t \in Threads, notes \in LockedNoteSeqs : LockedRebuildClear(t, notes)
    \/ \E t \in Threads : LockedRebuildAdd(t)
    \/ \E t \in Threads : Release(t)

SpecLocked == Init /\ [][NextLocked]_vars

(***************************************************************************)
(* The manager near the capacity Hnsw::new was given.  Filled(n, note),    *)
(* n >= 1, is the manager after n calls of update_note for the same note   *)
(* on a new manager: every call inserts a point under the next id and      *)
(* leaves that id as the only entry of the two mappings, the points of the *)
(* calls before staying in the index.                                      *)
(***************************************************************************)
Filled(n, note) ==
    [index |-> [alloc |-> TRUE,
                points |-> [i \in 1..n |->
                              [d_id |-> i - 1, v |-> StoredPoint(Embedding(NoteText(note)))]]],
     note_to_id |-> MapInsert(EmptyMap, note.id, n - 1),
     id_to_note |-> MapInsert(EmptyMap, n - 1, note.id),
     next_id |-> n]

InitFull ==
    /\ \E n \in (max_elements - Headroom)..max_elements, note \in Note :
          /\ index = Filled(n, note).index
          /\ note_to_id = Filled(n, note).note_to_id
          /\ id_to_note = Filled(n, note).id_to_note
          /\ next_id = n
          /\ last = Call("update", <<note>>, "Ok")
          /\ status = [e \in NoteIds |-> IF e = note.id THEN "live" ELSE "absent"]
    /\ rebuilt = NoRebuild
    /\ gen_text = << >>
    /\ gen_embedding = << >>
    /\ Unlocked

\* add_note while the index holds at most max_elements vectors
FullAddNote(note) ==
    /\ Len(index.points) <= max_elements
    /\ LET r == add_note(Self, note)
       IN  /\ SetSelf(r.m)
           /\ last' = Call("add", <<note>>, r.res)
           /\ status' = IF r.res = "Ok" THEN [status EXCEPT ![note.id] = "live"] ELSE status
    /\ rebuilt' = NoRebuild
    /\ UNCHANGED <<genVars, lockVars>>

NextFull ==
    \/ \E note \in Note : FullAddNote(note)
    \/ \E note \in Note : RemoveNote(note)

SpecFull == InitFull /\ [][NextFull]_vars

\* A thread that has the guard runs its operation to the end and drops the
\* guard (weak fairness); a thread waiting in lock() gets the guard if it is
\* free again and again (strong fairness: the fair scheduling of the lock).
SpecLockedFair ==
    /\ Init /\ [][NextLocked]_vars
    /\ \A t \in Threads :
          /\ SF_vars(Acquire(t))
          /\ WF_vars(Operate(t))
          /\ WF_vars(Release(t))

(***************************************************************************)
(* Claims.                                                                 *)
(***************************************************************************)
IsSearch == last.op = "search"
LastNote == last.notes[1]
ResultIds == {last.result[i] : i \in DOMAIN last.result}
InternalIdsOf(rev, e) == {i \in DOMAIN rev : rev[i] = e}

\* C1: once remove(d) has succeeded, no search returns d's external id until
\* an add, update or rebuild supplies d again.
C1_RemoveHides ==
    IsSearch => \A e \in ResultIds : status[e] # "removed"

\* C2: every external id in a search result was produced by the internal id
\* that the forward mapping holds for it.
C2_OnlyForwardMappedSurfaced ==
    IsSearch =>
        \A i \in DOMAIN last.kept :
            LET e == id_to_note[last.kept[i].d_id]
            IN  e \in DOMAIN note_to_id /\ note_to_id[e] = last.kept[i].d_id

\* C3: after a successful update(doc) exactly one internal id of the reverse
\* mapping maps to doc's external id, it is the id this update assigned and
\* the forward mapping of the external id, and every internal id that mapped
\* to it before is gone from the reverse mapping.
C3_UpdateReplaces ==
    [][(last'.op = "update" /\ last'.res = "Ok") =>
          LET e == last'.notes[1].id
          IN  /\ InternalIdsOf(id_to_note', e) = {next_id}
              /\ e \in DOMAIN note_to_id' /\ note_to_id'[e] = next_id
              /\ \A i \in InternalIdsOf(id_to_note, e) : i \notin DOMAIN id_to_note']_vars

\* C4: the keys of the forward mapping are exactly the live documents.
C4_ForwardKeysAreLive ==
    DOMAIN note_to_id = {e \in NoteIds : status[e] = "live"}

C4_Witness ==
    /\ \E e \in NoteIds : status[e] = "removed"
    /\ \E e \in NoteIds : status[e] = "live"
    /\ \E e \in NoteIds : Cardinality(InternalIdsOf(id_to_note, e)) > 1

\* C5: remove of an external id that is not in the forward mapping fails with
\* NotFound, and a remove that fails leaves index, mappings and counter alone.
C5_RemoveNotFound ==
    [][last'.op = "remove" =>
          /\ last'.notes[1].id \notin DOMAIN note_to_id => last'.res = "NotFound"
          /\ last'.res = "NotFound" =>
                UNCHANGED <<index, note_to_id, id_to_note, next_id>>]_vars

C5_Witness ==
    /\ last.op = "remove" /\ last.res = "NotFound"
    /\ status[LastNote.id] = "removed"
    /\ index.alloc /\ DOMAIN id_to_note # {}

\* C6: search on a manager whose index was never initialized returns Ok with
\* an empty sequence, whatever the query, k and cutoff.
C6_SearchUninitialized ==
    (IsSearch /\ ~index.alloc) => (last.res = "Ok" /\ last.result = << >>)

C6_Witness ==
    /\ IsSearch /\ ~index.alloc
    /\ last.query # << >> /\ last.k > 0 /\ last.cutoff # NoCutoff

\* C7: rebuild with N notes leaves the counter at N, maps internal id i to the
\* external id of the i-th note, and leaves exactly N vectors in the index.
C7_RebuildAssignsIds ==
    last.op = "rebuild" =>
        LET N == Len(last.notes)
        IN  /\ last.res = "Ok"
            /\ next_id = N
            /\ \A i \in 0..(N - 1) :
                  i \in DOMAIN id_to_note /\ id_to_note[i] = last.notes[i + 1].id
            /\ index.alloc /\ Len(index.points) = N
            /\ \A i \in 0..(N - 1) : index.points[i + 1].d_id = i

C7_Witness ==
    /\ last.op = "rebuild" /\ Len(last.notes) = 2
    /\ \E e \in NoteIds : status[e] = "removed"

\* C8: after rebuild the forward keys are the external ids of the notes given,
\* the index holds the vectors of those notes and nothing else, and a search
\* returns only external ids of those notes.
C8_RebuildDiscards ==
    /\ last.op = "rebuild" =>
          /\ DOMAIN note_to_id = IdsOf(last.notes)
          /\ index.points = [i \in 1..Len(last.notes) |->
                                [d_id |-> i - 1,
                                 v |-> Stored(generate_simple_embedding(NoteText(last.notes[i])))]]
    /\ (IsSearch /\ rebuilt.valid) => ResultIds \subseteq rebuilt.ids

C8_Witness ==
    /\ IsSearch /\ rebuilt.valid /\ ResultIds # {}
    /\ \E e \in NoteIds : status[e] = "removed" /\ e \notin rebuilt.ids

RECURSIVE IsSubseq(_, _)
IsSubseq(s, t) ==
    IF s = << >> THEN TRUE
    ELSE IF t = << >> THEN FALSE
    ELSE IF Head(s) = Head(t) THEN IsSubseq(Tail(s), Tail(t))
    ELSE IsSubseq(s, Tail(t))

\* the result of the last search had it been called with cutoff c and the
\* index given the same answer
ResultFor(c) == search(Self, last.query, last.k, c, last.neighbors).result

\* C9: with a cutoff C every result comes from a neighbour at distance <= C
\* and a mapped neighbour at distance exactly C is kept; the result for a
\* smaller cutoff is a subsequence of the result for a larger one, which is a
\* subsequence of the result without cutoff.
C9_CutoffFiltering ==
    IsSearch =>
        /\ last.cutoff # NoCutoff =>
              /\ \A i \in DOMAIN last.kept : last.kept[i].distance <= last.cutoff
              /\ \A i \in DOMAIN last.neighbors :
                    (/\ last.neighbors[i].distance = last.cutoff
                     /\ last.neighbors[i].d_id \in DOMAIN id_to_note)
                        => \E j \in DOMAIN last.kept : last.kept[j] = last.neighbors[i]
        /\ Len(last.result) = Len(last.kept)
        /\ \A c1, c2 \in Cutoffs \ {NoCutoff} :
              c1 <= c2 => /\ IsSubseq(ResultFor(c1), ResultFor(c2))
                          /\ IsSubseq(ResultFor(c2), ResultFor(NoCutoff))

C9_Witness ==
    /\ IsSearch /\ last.cutoff # NoCutoff
    /\ \E j \in DOMAIN last.kept : last.kept[j].distance = last.cutoff
    /\ \E i \in DOMAIN last.neighbors :
          /\ last.neighbors[i].distance > last.cutoff
          /\ last.neighbors[i].d_id \in DOMAIN id_to_note
    /\ Len(ResultFor(last.cutoff)) < Len(ResultFor(NoCutoff))

\* C10: a search result has at most k external ids and is exactly the answer
\* of the index (at most k neighbours, ascending distance) with the neighbours
\* beyond the cutoff and the unmapped ones left out, in the same order.
C10_FilteredSubsequence ==
    IsSearch =>
        LET Passes(n) == /\ last.cutoff = NoCutoff \/ n.distance <= last.cutoff
                         /\ n.d_id \in DOMAIN id_to_note
            sel == SelectSeq(last.neighbors, Passes)
        IN  /\ Len(last.neighbors) <= last.k
            /\ Len(last.result) <= last.k
            /\ \A i, j \in DOMAIN last.neighbors :
                  i < j => last.neighbors[i].distance <= last.neighbors[j].distance
            /\ last.result = [i \in 1..Len(sel) |-> id_to_note[sel[i].d_id]]

C10_Witness ==
    /\ IsSearch /\ Len(last.neighbors) = last.k /\ Len(last.result) < last.k
    /\ Len(last.result) > 0
    /\ \E i \in DOMAIN id_to_note :
          \A j \in DOMAIN last.neighbors : last.neighbors[j].d_id # i

\* C11: on a manager that has inserted exactly one note since it was created,
\* a search with k >= 1 and no cutoff returns exactly the external id of that
\* note, whatever the query.
C11_AddThenSearch ==
    (/\ IsSearch /\ last.k >= 1 /\ last.cutoff = NoCutoff
     /\ index.alloc /\ next_id = 1 /\ Len(index.points) = 1
     /\ note_to_id # EmptyMap)
        => \E e \in NoteIds : DOMAIN note_to_id = {e} /\ last.result = <<e>>

C11_Witness ==
    /\ IsSearch /\ last.k = 1 /\ last.cutoff = NoCutoff
    /\ next_id = 1 /\ Len(index.points) = 1
    /\ DOMAIN note_to_id = {"a"} /\ ~rebuilt.valid
    /\ last.neighbors[1].distance > 0

\* C12: update(doc) leaves the index, both mappings and the counter as
\* remove(doc) with its NotFound ignored followed by add(doc) leaves them,
\* from every reachable state, and it never returns NotFound; for a doc that
\* has no forward entry it is add(doc).
C12_UpdateIsRemoveThenAdd ==
    [][last'.op = "update" =>
          LET note == last'.notes[1]
              removed == remove_note(Self, note)
              added == add_note(removed.m, note)
          IN  /\ Self' = added.m
              /\ last'.res = added.res
              /\ last'.res # "NotFound"
              /\ removed.res = "NotFound" => Self' = add_note(Self, note).m]_vars

C12_Witness ==
    /\ last.op = "update" /\ last.res = "Ok"
    /\ next_id = 3
    /\ Cardinality(DOMAIN id_to_note) = 1
    /\ status[LastNote.id] = "live"
    /\ \E e \in NoteIds : status[e] = "removed"

\* C13: internal ids are not reused within one index: except across a
\* rebuild the counter never decreases, remove and search leave it alone, an
\* add or update inserts one vector under an id greater than every id
\* already in the index, and no two vectors of the index share an id.
C13_IdsNeverReused ==
    [][/\ last'.op # "rebuild" => next_id' >= next_id
       /\ last'.op \in {"remove", "search"} => next_id' = next_id /\ index' = index
       /\ last'.op \in {"add", "update"} =>
             /\ Len(index'.points) = Len(index.points) + 1
             /\ \A i \in DOMAIN index.points :
                   /\ index'.points[i] = index.points[i]
                   /\ index.points[i].d_id < index'.points[Len(index'.points)].d_id
             /\ index'.points[Len(index'.points)].d_id < next_id'
       /\ \A i, j \in DOMAIN index'.points :
             i # j => index'.points[i].d_id # index'.points[j].d_id]_vars

C13_Witness ==
    /\ last.op \in {"add", "update"}
    /\ next_id = 3 /\ Len(index.points) = 3
    /\ rebuilt = NoRebuild
    /\ \E i \in DOMAIN index.points : index.points[i].d_id \notin DOMAIN id_to_note

\* C18: add(d) with the counter at c returns Ok, inserts exactly one vector,
\* the embedding of d's text, under internal id c, sets forward[d.id] = c and
\* reverse[c] = d.id, leaves the counter at c + 1, and changes no other
\* reverse entry and no forward entry of another external id.
C18_AddAssigns ==
    [][last'.op = "add" =>
          LET d == last'.notes[1]
              c == next_id
              n == Len(index.points)
          IN  /\ last'.res = "Ok"
              /\ index'.alloc /\ Len(index'.points) = n + 1
              /\ \A i \in 1..n : index'.points[i] = index.points[i]
              /\ index'.points[n + 1] =
                    [d_id |-> c, v |-> Stored(Embedding(NoteText(d)))]
              /\ d.id \in DOMAIN note_to_id' /\ note_to_id'[d.id] = c
              /\ c \in DOMAIN id_to_note' /\ id_to_note'[c] = d.id
              /\ next_id' = c + 1
              /\ DOMAIN id_to_note' = DOMAIN id_to_note \cup {c}
              /\ \A i \in DOMAIN id_to_note \ {c} : id_to_note'[i] = id_to_note[i]
              /\ DOMAIN note_to_id' = DOMAIN note_to_id \cup {d.id}
              /\ \A e \in DOMAIN note_to_id \ {d.id} : note_to_id'[e] = note_to_id[e]]_vars

C18_Witness ==
    /\ last.op = "add" /\ next_id = 3
    /\ Cardinality(InternalIdsOf(id_to_note, LastNote.id)) = 1
    /\ \E e \in DOMAIN note_to_id : e # LastNote.id
    /\ \E i \in DOMAIN index.points : index.points[i].d_id \notin DOMAIN id_to_note

\* C19: an add for an external id that still has a forward entry leaves two
\* live internal ids for it: the old and the new id are both in the reverse
\* mapping, both map to the external id, both have a vector in the index, and
\* a search of the manager afterwards can return the external id twice.
C19_DoubleAddDuplicates ==
    [][(last'.op = "add" /\ last'.notes[1].id \in DOMAIN note_to_id) =>
          LET e == last'.notes[1].id
              old == note_to_id[e]
              after == Self'
              n == Len(after.index.points)
          IN  /\ old # next_id
              /\ {old, next_id} \subseteq InternalIdsOf(id_to_note', e)
              /\ \A id \in {old, next_id} :
                    \E i \in 1..n : after.index.points[i].d_id = id
              /\ \E query \in Queries :
                    \E neighbors \in IndexAnswers(after, query, n) :
                       LET result == search(after, query, n, NoCutoff, neighbors).result
                       IN  \E i, j \in DOMAIN result :
                              i # j /\ result[i] = e /\ result[j] = e]_vars

C19_Witness ==
    /\ IsSearch /\ last.k = 2 /\ last.result = <<"a", "a">>
    /\ last.neighbors[1].d_id # last.neighbors[2].d_id
    /\ \A e \in NoteIds : status[e] # "removed"

\* C20: the index starts unallocated; it becomes allocated only in an add,
\* update or rebuild; search and remove leave it as it is, allocated or not;
\* once allocated it is allocated after every operation, rebuild included.
C20_Lifecycle ==
    /\ ~index.alloc
    /\ [][/\ (~index.alloc /\ index'.alloc) => last'.op \in {"add", "update", "rebuild"}
          /\ last'.op \in {"search", "remove"} => index'.alloc = index.alloc
          /\ last'.op \in {"add", "update", "rebuild"} => index'.alloc
          /\ index.alloc => index'.alloc]_vars

C20_Witness ==
    /\ last.op = "rebuild" /\ last.notes = << >> /\ index.alloc
    /\ \E e \in NoteIds : status[e] = "removed"

\* the Euclidean norm of a vector, in units of 1/One
Norm(v) == ISqrt(SumSquares(v))

\* C16: the vector generate returns for a non-empty text has Euclidean norm
\* 1.0 up to the rounding of the arithmetic (each of the at most Len(text)
\* nonzero components is rounded by less than one unit), and the vector it
\* returns for the empty text has norm 0.
C16_UnitNorm ==
    gen_embedding # << >> =>
        IF gen_text = << >>
        THEN Norm(gen_embedding) = 0
        ELSE /\ Norm(gen_embedding) <= One
             /\ One - Norm(gen_embedding) <= Len(gen_text)

C16_Witness ==
    /\ gen_embedding # << >> /\ Len(gen_text) = MaxTextLen
    /\ Cardinality(NonZero(gen_embedding)) = 2
    /\ Norm(gen_embedding) # One

\* C17: generate returns a vector of exactly D components for every text,
\* all of them 0 for the empty text and some of them not 0 for any other
\* text, and the vector of every note text has D components.
C17_TotalShape ==
    /\ gen_embedding # << >> =>
          /\ Len(gen_embedding) = D
          /\ \A j \in 1..D : gen_embedding[j] >= 0
          /\ gen_text = << >> <=> \A j \in 1..D : gen_embedding[j] = 0
    /\ \A note \in Note : Len(generate_simple_embedding(NoteText(note))) = D

C17_Witness ==
    /\ gen_text = << >> /\ gen_embedding # << >>
    /\ Len(gen_embedding) = D

\* the outcome of the call c run alone on the manager it began with
Effect(c) ==
    CASE c.op = "add" -> add_note(c.at, c.notes[1])
      [] c.op = "remove" -> remove_note(c.at, c.notes[1])
      [] c.op = "update" -> update_note(c.at, c.notes[1])
      [] c.op = "rebuild" -> rebuild_index(c.at, c.notes)
      [] OTHER -> [m |-> c.at, res |-> "Ok"]

\* thread t runs a step of an operation
OperationStep(t) ==
    /\ pc[t] \in {"holding", "running"}
    /\ <<pc'[t], call'[t]>> # <<pc[t], call[t]>>

\* C14: at most one thread has the guard; a thread runs a step of an
\* operation only with the guard, while no other thread is inside an
\* operation; the manager changes in no other step; and when an operation
\* returns, the manager and the result are those of the whole operation run
\* alone on the manager it found (for search: the manager it found).
C14_MutualExclusion ==
    [][/\ \A t, u \in Threads : (pc'[t] \in Holding /\ pc'[u] \in Holding) => t = u
       /\ \A t \in Threads : pc'[t] \in Holding <=> lock' = t
       /\ \A t \in Threads :
             OperationStep(t) =>
                /\ lock = t
                /\ \A u \in Threads \ {t} :
                      pc[u] \in {"idle", "waiting"} /\ pc'[u] = pc[u] /\ call'[u] = call[u]
       /\ Self' # Self => \E t \in Threads : OperationStep(t)
       /\ \A t \in Threads :
             pc'[t] = "returned" =>
                /\ Self' = Effect(call'[t]).m
                /\ call'[t].res = Effect(call'[t]).res]_vars

C14_Witness ==
    /\ pc["t1"] = "running" /\ call["t1"].op = "update"
    /\ call["t1"].notes[1].id \notin DOMAIN note_to_id
    /\ call["t1"].notes[1].id \in DOMAIN call["t1"].at.note_to_id
    /\ pc["t2"] = "waiting"

C23_RemoveFrame ==
    [][(last'.op = "remove" /\ last'.res = "Ok") =>
          LET e == last'.notes[1].id
          IN  /\ e \in DOMAIN note_to_id
              /\ DOMAIN note_to_id' = DOMAIN note_to_id \ {e}
              /\ \A x \in DOMAIN note_to_id' : note_to_id'[x] = note_to_id[x]
              /\ DOMAIN id_to_note' = DOMAIN id_to_note \ {note_to_id[e]}
              /\ \A i \in DOMAIN id_to_note' : id_to_note'[i] = id_to_note[i]
              /\ index' = index
              /\ next_id' = next_id]_vars

C23_Witness ==
    /\ last.op = "remove" /\ last.res = "Ok"
    /\ InternalIdsOf(id_to_note, LastNote.id) # {}
    /\ \E e \in DOMAIN note_to_id : e # LastNote.id
    /\ Len(index.points) = 3

\* C25: the forward and the reverse mapping are inverses of each other:
\* forward[e] = i exactly when reverse[i] = e.
C25_MutualInverses ==
    \A e \in NoteIds, i \in 0..next_id :
        (e \in DOMAIN note_to_id /\ note_to_id[e] = i)
            <=> (i \in DOMAIN id_to_note /\ id_to_note[i] = e)

\* C26: a search, whatever its query, k and cutoff and whether the index is
\* allocated or not, leaves the index, both mappings and the counter as they
\* were; a search repeated right after with the same arguments, the index
\* giving the same answer, returns the same result.
C26_SearchReadOnly ==
    [][last'.op = "search" =>
          /\ UNCHANGED <<index, note_to_id, id_to_note, next_id>>
          /\ (/\ last.op = "search"
              /\ last'.query = last.query /\ last'.k = last.k /\ last'.cutoff = last.cutoff
              /\ last'.neighbors = last.neighbors)
                => last'.result = last.result]_vars

C26_Witness ==
    /\ IsSearch /\ ~index.alloc
    /\ \E e \in NoteIds : status[e] = "absent"
    /\ next_id = 0 /\ last.k = 2

\* C27: while the index is allocated it holds exactly the internal ids
\* 0..next_id-1, one vector each, and every key of the reverse mapping and
\* every value of the forward mapping is below next_id; while it is not
\* allocated both mappings are empty and next_id is 0.
C27_Arena ==
    /\ index.alloc =>
          /\ Len(index.points) = next_id
          /\ {index.points[i].d_id : i \in DOMAIN index.points} = 0..(next_id - 1)
          /\ \A i \in DOMAIN id_to_note : i < next_id
          /\ \A e \in DOMAIN note_to_id : note_to_id[e] < next_id
    /\ ~index.alloc =>
          /\ index.points = << >>
          /\ note_to_id = EmptyMap /\ id_to_note = EmptyMap
          /\ next_id = 0

C27_Witness ==
    /\ index.alloc /\ next_id = 3
    /\ last.op = "add"
    /\ Cardinality(DOMAIN id_to_note) = 1
    /\ \E e \in NoteIds : status[e] = "removed"

\* bucket j of a text before normalization: the sum of 1/(i+1) over the
\* 0-based positions i of the chars whose code point is j modulo D
BucketPositions(t, j) == {i \in 0..(Len(t) - 1) : t[i + 1] % D = j}
RawBucket(t, j) == SumOver(BucketPositions(t, j), [i \in 0..(Len(t) - 1) |-> One \div (i + 1)])
RawMagnitude(t) ==
    ISqrt(SumOver({j \in 0..(D - 1) : BucketPositions(t, j) # {}},
                  [j \in 0..(D - 1) |-> RawBucket(t, j) * RawBucket(t, j)]))

\* C24: component j of generate(text) is nonzero exactly when some char of
\* the text has code point j modulo 128, and it is the sum of 1/(i+1) over
\* the positions i of those chars divided by the magnitude of all buckets.
C24_BucketRule ==
    gen_embedding # << >> =>
        \A magnitude \in {RawMagnitude(gen_text)} :
            \A j \in 0..(D - 1) :
                /\ gen_embedding[j + 1] # 0 <=> BucketPositions(gen_text, j) # {}
                /\ gen_embedding[j + 1] =
                      IF magnitude > 0
                      THEN (RawBucket(gen_text, j) * One) \div magnitude
                      ELSE 0

\* 'a' and U+00E1 share bucket 97, and the text read backwards has another vector
C24_Witness ==
    /\ gen_text = <<97, 225, 32>> /\ gen_embedding # << >>
    /\ NonZero(gen_embedding) = {33, 98}
    /\ gen_embedding # generate_simple_embedding(<<32, 225, 97>>)
    /\ gen_embedding = generate_simple_embedding(<<225, 97, 32>>)

\* C22: no operation panics: in every reachable state the last operation
\* returned a Result (Ok or NotFound), remove of an unknown id and search
\* with k = 0 or on an empty or unallocated index included, and so does
\* every search for the empty query from that state.
C22_NoPanic ==
    /\ last.res \in {"Ok", "NotFound"}
    /\ \A k \in Ks, distance_cutoff \in Cutoffs :
          \A neighbors \in IndexAnswers(Self, EmptyQuery, k) :
             LET o == search(Self, EmptyQuery, k, distance_cutoff, neighbors)
             IN  o.res = "Ok" /\ Len(o.result) <= k

C22_Witness ==
    /\ IsSearch /\ last.k = 0 /\ last.res = "Ok"
    /\ index.alloc /\ index.points = << >>
    /\ \E e \in NoteIds : status[e] = "removed"

\* C21: an add_note on an index that holds max_elements vectors fails, and
\* no index ever holds more than max_elements vectors, live or not.
C21_CapacityEnforced ==
    [][/\ (last'.op = "add" /\ Len(index.points) >= max_elements) =>
             (last'.res # "Ok" /\ index' = index)
       /\ Len(index'.points) <= max_elements]_vars

=============================================================================
